---- MODULE Spec2Model ----
(***************************************************************************)
(* Model of logic_simplifier.py: the expression classes with their         *)
(* simplify() and _str() methods, parse_expression (tokenizer and          *)
(* recursive-descent parser) and the fixed-point driver                    *)
(* simplify_logic_expression.                                              *)
(*                                                                         *)
(* A Python string is a sequence of one-character strings; a token is such *)
(* a sequence too.  An expression object is a tuple whose first element is *)
(* its class: <<"Var", name>>, <<"Const", value>>, <<"Not", operand>>,     *)
(* <<"And", left, right>>, <<"Or", left, right>>.                          *)
(***************************************************************************)
EXTENDS Integers, Sequences, FiniteSets, TLC

VARIABLES
    expression,   \* the LogicExpression handed to simplify() and to the driver
    once,         \* expression.simplify()
    twice,        \* expression.simplify().simplify()
    pc,           \* position: "call", "loop", "done", "error", "text", "tokens", "tokenized", "parsed"
    round,        \* 1: the driver runs on the object, 2: on the rendering of its result
    current,      \* driver local
    simplified,   \* driver local
    steps,        \* driver local
    result,       \* the driver's return value
    via,          \* which return statement of the driver was taken
    firstText,    \* str() of the round-1 result
    text,         \* the string handed to parse_expression
    tokens,       \* the token list built by the scanning loop
    parsed        \* outcome of the parser: [ok, tree, rest, err]

vars == <<expression, once, twice, pc, round, current, simplified, steps,
          result, via, firstText, text, tokens, parsed>>

----------------------------------------------------------------------------
(* Bounds *)

MaxNodes == 6
MaxLiveNodes == 5
MaxTokens == 5
MaxLen == 5

----------------------------------------------------------------------------
(* Expression objects *)

None == <<"None">>

Variable(name) == <<"Var", name>>
Constant(value) == <<"Const", value>>
Not(operand) == <<"Not", operand>>
And(left, right) == <<"And", left, right>>
Or(left, right) == <<"Or", left, right>>

IsVariable(e) == e[1] = "Var"
IsConstant(e) == e[1] = "Const"
IsNot(e) == e[1] = "Not"
IsAnd(e) == e[1] = "And"
IsOr(e) == e[1] = "Or"

\* left.__class__ == right.__class__ and left.__dict__ == right.__dict__ ;
\* the dict comparison compares the attribute values with __eq__, recursively.
RECURSIVE SameObject(_, _)
SameObject(a, b) ==
    /\ a[1] = b[1]
    /\ CASE IsVariable(a) -> a[2] = b[2]
         [] IsConstant(a) -> a[2] = b[2]
         [] IsNot(a) -> SameObject(a[2], b[2])
         [] OTHER -> SameObject(a[2], b[2]) /\ SameObject(a[3], b[3])

----------------------------------------------------------------------------
(* simplify() *)

RECURSIVE simplify(_)

\* Not.simplify, after the operand has been simplified
NotRule(simplified_operand) ==
    IF IsNot(simplified_operand) THEN simplify(simplified_operand[2])
    ELSE IF IsConstant(simplified_operand) THEN Constant(~simplified_operand[2])
    ELSE Not(simplified_operand)

IsExcludedMiddle_NoMirror(expr) ==
    /\ IsOr(expr)
    /\ IsVariable(expr[2]) /\ IsNot(expr[3]) /\ IsVariable(expr[3][2])
    /\ expr[2][2] = expr[3][2][2]

IsExcludedMiddle_AnyNames(expr) ==
    /\ IsOr(expr)
    /\ LET left_is_var == IsVariable(expr[2])
           right_is_var == IsVariable(expr[3])
           left_is_not == IsNot(expr[2]) /\ IsVariable(expr[2][2])
           right_is_not == IsNot(expr[3]) /\ IsVariable(expr[3][2])
       IN  \/ left_is_var /\ right_is_not
           \/ left_is_not /\ right_is_var

\* And._is_excluded_middle
IsExcludedMiddle(expr) ==
    /\ IsOr(expr)
    /\ LET left_is_var == IsVariable(expr[2])
           right_is_var == IsVariable(expr[3])
           left_is_not == IsNot(expr[2]) /\ IsVariable(expr[2][2])
           right_is_not == IsNot(expr[3]) /\ IsVariable(expr[3][2])
       IN  \/ left_is_var /\ right_is_not /\ expr[2][2] = expr[3][2][2]
           \/ left_is_not /\ right_is_var /\ expr[2][2][2] = expr[3][2]

\* Or._is_contradiction
IsContradiction(expr) ==
    /\ IsAnd(expr)
    /\ LET left_is_var == IsVariable(expr[2])
           right_is_var == IsVariable(expr[3])
           left_is_not == IsNot(expr[2]) /\ IsVariable(expr[2][2])
           right_is_not == IsNot(expr[3]) /\ IsVariable(expr[3][2])
       IN  \/ left_is_var /\ right_is_not /\ expr[2][2] = expr[3][2][2]
           \/ left_is_not /\ right_is_var /\ expr[2][2][2] = expr[3][2]

AndRule_Swapped(left, right) ==
    IF IsConstant(left) /\ ~left[2] THEN Constant(FALSE)
    ELSE IF IsConstant(right) /\ ~right[2] THEN Constant(FALSE)
    ELSE IF IsConstant(left) /\ left[2] THEN right
    ELSE IF IsConstant(right) /\ right[2] THEN left
    ELSE IF SameObject(left, right) THEN left
    ELSE IF IsExcludedMiddle(left) THEN right
    ELSE IF IsExcludedMiddle(right) THEN left
    ELSE And(right, left)

\* And.simplify, after both operands have been simplified
AndRule(left, right) ==
    IF IsConstant(left) /\ ~left[2] THEN Constant(FALSE)
    ELSE IF IsConstant(right) /\ ~right[2] THEN Constant(FALSE)
    ELSE IF IsConstant(left) /\ left[2] THEN right
    ELSE IF IsConstant(right) /\ right[2] THEN left
    ELSE IF SameObject(left, right) THEN left
    ELSE IF IsExcludedMiddle(left) THEN right
    ELSE IF IsExcludedMiddle(right) THEN left
    ELSE And(left, right)

OrRule_NoIdempotence(left, right) ==
    IF IsConstant(left) /\ left[2] THEN Constant(TRUE)
    ELSE IF IsConstant(right) /\ right[2] THEN Constant(TRUE)
    ELSE IF IsConstant(left) /\ ~left[2] THEN right
    ELSE IF IsConstant(right) /\ ~right[2] THEN left
    ELSE IF IsContradiction(left) THEN right
    ELSE IF IsContradiction(right) THEN left
    ELSE Or(left, right)

OrRule_Swapped(left, right) ==
    IF IsConstant(left) /\ left[2] THEN Constant(TRUE)
    ELSE IF IsConstant(right) /\ right[2] THEN Constant(TRUE)
    ELSE IF IsConstant(left) /\ ~left[2] THEN right
    ELSE IF IsConstant(right) /\ ~right[2] THEN left
    ELSE IF SameObject(left, right) THEN left
    ELSE IF IsContradiction(left) THEN right
    ELSE IF IsContradiction(right) THEN left
    ELSE Or(right, left)

\* Or.simplify, after both operands have been simplified
OrRule(left, right) ==
    IF IsConstant(left) /\ left[2] THEN Constant(TRUE)
    ELSE IF IsConstant(right) /\ right[2] THEN Constant(TRUE)
    ELSE IF IsConstant(left) /\ ~left[2] THEN right
    ELSE IF IsConstant(right) /\ ~right[2] THEN left
    ELSE IF SameObject(left, right) THEN left
    ELSE IF IsContradiction(left) THEN right
    ELSE IF IsContradiction(right) THEN left
    ELSE Or(left, right)

\* the simplify() method, dispatched on the class of e
simplify(e) ==
    CASE IsVariable(e) -> e
      [] IsConstant(e) -> e
      [] IsNot(e) -> NotRule(simplify(e[2]))
      [] IsAnd(e) -> AndRule(simplify(e[2]), simplify(e[3]))
      [] IsOr(e) -> OrRule(simplify(e[2]), simplify(e[3]))

----------------------------------------------------------------------------
(* str() *)

sTrue == <<"T", "r", "u", "e">>
sFalse == <<"F", "a", "l", "s", "e">>
sNot == <<"n", "o", "t">>
sAnd == <<"a", "n", "d">>
sOr == <<"o", "r">>

RECURSIVE Str(_)
Str(e) ==
    CASE IsVariable(e) -> e[2]
      [] IsConstant(e) -> IF e[2] THEN sTrue ELSE sFalse
      [] IsNot(e) ->
            IF IsVariable(e[2]) \/ IsConstant(e[2])
            THEN sNot \o <<" ">> \o Str(e[2])
            ELSE sNot \o <<" ", "(">> \o Str(e[2]) \o <<")">>
      [] IsAnd(e) ->
            LET left_str == IF IsOr(e[2]) THEN <<"(">> \o Str(e[2]) \o <<")">>
                            ELSE Str(e[2])
                right_str == IF IsOr(e[3]) THEN <<"(">> \o Str(e[3]) \o <<")">>
                             ELSE Str(e[3])
            IN  left_str \o <<" ">> \o sAnd \o <<" ">> \o right_str
      [] IsOr(e) ->
            <<"(">> \o Str(e[2]) \o <<" ">> \o sOr \o <<" ">> \o Str(e[3]) \o <<")">>

----------------------------------------------------------------------------
(* parse_expression: the tokenizer *)

Letters ==
    {"A", "B", "C", "D", "E", "F", "G", "H", "I", "J", "K", "L", "M",
     "N", "O", "P", "Q", "R", "S", "T", "U", "V", "W", "X", "Y", "Z",
     "a", "b", "c", "d", "e", "f", "g", "h", "i", "j", "k", "l", "m",
     "n", "o", "p", "q", "r", "s", "t", "u", "v", "w", "x", "y", "z"}

\* str.isalpha() of one character
isalpha(c) == c \in Letters

Drop(s, n) == SubSeq(s, n + 1, Len(s))

StartsWith(s, p) == Len(s) >= Len(p) /\ SubSeq(s, 1, Len(p)) = p

\* str.replace(old, new) for a non-empty old: leftmost, non-overlapping
RECURSIVE replace(_, _, _)
replace(s, old, new) ==
    IF Len(s) < Len(old) THEN s
    ELSE IF StartsWith(s, old) THEN new \o replace(Drop(s, Len(old)), old, new)
    ELSE <<Head(s)>> \o replace(Tail(s), old, new)

\* the four replace calls that open parse_expression
Normalize(expr_str) ==
    replace(replace(replace(replace(expr_str, <<" ">>, <<>>),
                            sNot, <<"~">>), sAnd, <<"&">>), sOr, <<"|">>)

\* length of the alphabetic run that starts s
RECURSIVE AlphaRun(_)
AlphaRun(s) ==
    IF s # <<>> /\ isalpha(Head(s)) THEN 1 + AlphaRun(Tail(s)) ELSE 0

\* the scanning loop, from position i = 0 of s
RECURSIVE Scan(_)
Scan(s) ==
    IF s = <<>> THEN <<>>
    ELSE IF StartsWith(s, sTrue) THEN <<sTrue>> \o Scan(Drop(s, 4))
    ELSE IF StartsWith(s, sFalse) THEN <<sFalse>> \o Scan(Drop(s, 5))
    ELSE IF isalpha(Head(s))
         THEN <<SubSeq(s, 1, AlphaRun(s))>> \o Scan(Drop(s, AlphaRun(s)))
    ELSE IF Head(s) \in {"~", "&", "|", "(", ")"}
         THEN <<(<<Head(s)>>)>> \o Scan(Tail(s))
    ELSE Scan(Tail(s))

Tokenize(expr_str) == Scan(Normalize(expr_str))

----------------------------------------------------------------------------
(* parse_expression: the parser *)

Ok(tree, rest) == [ok |-> TRUE, tree |-> tree, rest |-> rest, err |-> "none"]
Fail(err, rest) == [ok |-> FALSE, tree |-> None, rest |-> rest, err |-> err]

\* token.isalpha()
IsAlphaToken(token) == token # <<>> /\ \A i \in 1..Len(token) : isalpha(token[i])

RECURSIVE parse_primary(_)
RECURSIVE parse_expression_tokens(_)
RECURSIVE ParseLoop(_, _)

\* the loop body's choice of node
Combine(op, left, right) ==
    IF op = <<"&">> THEN And(left, right)
    ELSE IF op = <<"|">> THEN Or(left, right)
    ELSE left

parse_primary(toks) ==
    IF toks = <<>> THEN Fail("empty", toks)
    ELSE LET token == Head(toks)
             rest == Tail(toks)
         IN  IF token = sTrue THEN Ok(Constant(TRUE), rest)
             ELSE IF token = sFalse THEN Ok(Constant(FALSE), rest)
             ELSE IF token \in {<<"t", "r", "u", "e">>, <<"f", "a", "l", "s", "e">>}
                  THEN Ok(Constant(token = <<"t", "r", "u", "e">>), rest)
             ELSE IF IsAlphaToken(token) THEN Ok(Variable(token), rest)
             ELSE IF token = <<"~">>
                  THEN LET r == parse_primary(rest)
                       IN  IF r.ok THEN Ok(Not(r.tree), r.rest) ELSE r
             ELSE IF token = <<"(">>
                  THEN LET r == parse_expression_tokens(rest)
                       IN  IF ~r.ok THEN r
                           ELSE IF r.rest = <<>> THEN Fail("paren", r.rest)
                           ELSE IF Head(r.rest) # <<")">> THEN Fail("paren", Tail(r.rest))
                           ELSE Ok(r.tree, Tail(r.rest))
             ELSE Fail("unknown", rest)

ParseLoop_RightFold(left, toks) ==
    IF toks # <<>> /\ Head(toks) \in {<<"&">>, <<"|">>}
    THEN LET r == parse_expression_tokens(Tail(toks))
         IN  IF r.ok THEN Ok(Combine(Head(toks), left, r.tree), r.rest)
             ELSE r
    ELSE Ok(left, toks)

\* the while loop of parse_expression_tokens, entered with `left`
ParseLoop(left, toks) ==
    IF toks # <<>> /\ Head(toks) \in {<<"&">>, <<"|">>}
    THEN LET r == parse_primary(Tail(toks))
         IN  IF r.ok THEN ParseLoop(Combine(Head(toks), left, r.tree), r.rest)
             ELSE r
    ELSE Ok(left, toks)

parse_expression_tokens(toks) ==
    LET l == parse_primary(toks)
    IN  IF l.ok THEN ParseLoop(l.tree, l.rest) ELSE l

ParseTokens_NoTrailingCheck(toks) == parse_expression_tokens(toks)

\* the try block that ends parse_expression
ParseTokens(toks) ==
    LET r == parse_expression_tokens(toks)
    IN  IF r.ok /\ r.rest # <<>> THEN Fail("extra", r.rest) ELSE r

\* parse_expression(expr_str)
parse_expression(expr_str) == ParseTokens(Tokenize(expr_str))

----------------------------------------------------------------------------
(* Inputs *)

Names == {<<"A">>, <<"B">>}

Leaves == {Variable(n) : n \in Names} \cup {Constant(TRUE), Constant(FALSE)}

\* the expression objects built from exactly n nodes
RECURSIVE ExprsOfSize(_)
ExprsOfSize(n) ==
    IF n = 1 THEN Leaves
    ELSE {Not(x) : x \in ExprsOfSize(n - 1)}
         \cup UNION {{And(l, r) : l \in ExprsOfSize(k), r \in ExprsOfSize(n - 1 - k)}
                      : k \in 1..(n - 2)}
         \cup UNION {{Or(l, r) : l \in ExprsOfSize(k), r \in ExprsOfSize(n - 1 - k)}
                      : k \in 1..(n - 2)}

Expressions == UNION {ExprsOfSize(n) : n \in 1..MaxNodes}

TokenAlphabet ==
    {<<"A">>, <<"B">>, sTrue, <<"~">>, <<"&">>, <<"|">>, <<"(">>, <<")">>}

TokenLists == UNION {[1..n -> TokenAlphabet] : n \in 0..MaxTokens}

CharAlphabet == {"T", "r", "u", "e", "o", " ", "\t", "&"}

Texts == UNION {[1..n -> CharAlphabet] : n \in 0..MaxLen}

----------------------------------------------------------------------------
(* simplify_logic_expression and direct calls of simplify() *)

max_steps == 10

Converged_Inverted(s, c) == Str(s) # Str(c)

\* the loop's exit test: str(simplified) == str(current)
Converged(s, c) == Str(s) = Str(c)

\* the state in which a caller holds one of the expressions of S
InitWith(S) ==
    /\ expression \in S
    /\ once = None
    /\ twice = None
    /\ pc = "call"
    /\ round = 1
    /\ current = None
    /\ simplified = None
    /\ steps = 0
    /\ result = None
    /\ via = "none"
    /\ firstText = <<>>
    /\ text = <<>>
    /\ tokens = <<>>
    /\ parsed = Fail("none", <<>>)

Init == InitWith(Expressions)

\* expression.simplify()
SimplifyOnce ==
    /\ expression # None
    /\ once = None
    /\ once' = simplify(expression)
    /\ UNCHANGED <<expression, twice, pc, round, current, simplified, steps,
                   result, via, firstText, text, tokens, parsed>>

\* expression.simplify().simplify()
SimplifyTwice ==
    /\ once # None
    /\ twice = None
    /\ twice' = simplify(once)
    /\ UNCHANGED <<expression, once, pc, round, current, simplified, steps,
                   result, via, firstText, text, tokens, parsed>>

\* simplify_logic_expression(expression) with a LogicExpression: up to the loop
Call ==
    /\ pc = "call"
    /\ current' = expression
    /\ steps' = 0
    /\ pc' = "loop"
    /\ UNCHANGED <<expression, once, twice, round, simplified, result, via,
                   firstText, text, tokens, parsed>>

\* one evaluation of the while test, with the loop body or the final return
Iterate ==
    /\ pc = "loop"
    /\ IF steps < max_steps
       THEN LET s == simplify(current)
            IN  /\ simplified' = s
                /\ IF Converged(s, current)
                   THEN /\ result' = s
                        /\ via' = "unchanged"
                        /\ pc' = "done"
                        /\ UNCHANGED <<current, steps>>
                   ELSE /\ current' = s
                        /\ steps' = steps + 1
                        /\ UNCHANGED <<result, via, pc>>
       ELSE /\ result' = current
            /\ via' = "cap"
            /\ pc' = "done"
            /\ UNCHANGED <<current, simplified, steps>>
    /\ UNCHANGED <<expression, once, twice, round, firstText, text, tokens, parsed>>

\* simplify_logic_expression(str(result)): the string branch, up to the loop
CallText ==
    /\ pc = "done"
    /\ round = 1
    /\ round' = 2
    /\ firstText' = Str(result)
    /\ text' = Str(result)
    /\ tokens' = Tokenize(Str(result))
    /\ parsed' = parse_expression(Str(result))
    /\ IF parsed'.ok
       THEN /\ current' = parsed'.tree
            /\ steps' = 0
            /\ pc' = "loop"
       ELSE /\ pc' = "error"
            /\ UNCHANGED <<current, steps>>
    /\ simplified' = None
    /\ result' = None
    /\ via' = "none"
    /\ UNCHANGED <<expression, once, twice>>

Next == SimplifyOnce \/ SimplifyTwice \/ Call \/ Iterate \/ CallText

Spec == Init /\ [][Next]_vars

\* one call of the driver on an expression object; it is sequential code, so
\* a started call keeps running
NextDriver == Call \/ Iterate

InitLive == InitWith(UNION {ExprsOfSize(n) : n \in 1..MaxLiveNodes})

FairSpec == InitLive /\ [][NextDriver]_vars /\ WF_vars(Call) /\ WF_vars(Iterate)

----------------------------------------------------------------------------
(* parse_expression on its own *)

InitText ==
    /\ text \in Texts
    /\ pc = "text"
    /\ tokens = <<>>
    /\ parsed = Fail("none", <<>>)
    /\ expression = None
    /\ once = None
    /\ twice = None
    /\ round = 0
    /\ current = None
    /\ simplified = None
    /\ steps = 0
    /\ result = None
    /\ via = "none"
    /\ firstText = <<>>

InitTokens ==
    /\ tokens \in TokenLists
    /\ pc = "tokens"
    /\ text = <<>>
    /\ parsed = Fail("none", <<>>)
    /\ expression = None
    /\ once = None
    /\ twice = None
    /\ round = 0
    /\ current = None
    /\ simplified = None
    /\ steps = 0
    /\ result = None
    /\ via = "none"
    /\ firstText = <<>>

\* the replace calls and the scanning loop
Scanning ==
    /\ pc = "text"
    /\ tokens' = Tokenize(text)
    /\ pc' = "tokenized"
    /\ UNCHANGED <<expression, once, twice, round, current, simplified, steps,
                   result, via, firstText, text, parsed>>

\* the try block: parse the token list
Parsing ==
    /\ pc \in {"tokens", "tokenized"}
    /\ parsed' = ParseTokens(tokens)
    /\ pc' = "parsed"
    /\ UNCHANGED <<expression, once, twice, round, current, simplified, steps,
                   result, via, firstText, text, tokens>>

NextText == Scanning \/ Parsing

TextSpec == InitText /\ [][NextText]_vars

NextTokens == Parsing

TokenSpec == InitTokens /\ [][NextTokens]_vars

----------------------------------------------------------------------------
(* Helpers of the properties *)

Assignments == [Names -> BOOLEAN]

\* truth value of e under assignment a
RECURSIVE Eval(_, _)
Eval(e, a) ==
    CASE e[1] = "Var" -> a[e[2]]
      [] e[1] = "Const" -> e[2]
      [] e[1] = "Not" -> ~Eval(e[2], a)
      [] e[1] = "And" -> Eval(e[2], a) /\ Eval(e[3], a)
      [] e[1] = "Or" -> Eval(e[2], a) \/ Eval(e[3], a)

RECURSIVE VarsOf(_)
VarsOf(e) ==
    CASE e[1] = "Var" -> {e[2]}
      [] e[1] = "Const" -> {}
      [] e[1] = "Not" -> VarsOf(e[2])
      [] OTHER -> VarsOf(e[2]) \cup VarsOf(e[3])

RECURSIVE HasConstant(_)
HasConstant(e) ==
    CASE e[1] = "Var" -> FALSE
      [] e[1] = "Const" -> TRUE
      [] e[1] = "Not" -> HasConstant(e[2])
      [] OTHER -> HasConstant(e[2]) \/ HasConstant(e[3])

RECURSIVE HasDoubleNot(_)
HasDoubleNot(e) ==
    CASE e[1] \in {"Var", "Const"} -> FALSE
      [] e[1] = "Not" -> e[2][1] = "Not" \/ HasDoubleNot(e[2])
      [] OTHER -> HasDoubleNot(e[2]) \/ HasDoubleNot(e[3])

RECURSIVE HasEqualChildren(_)
HasEqualChildren(e) ==
    CASE e[1] \in {"Var", "Const"} -> FALSE
      [] e[1] = "Not" -> HasEqualChildren(e[2])
      [] OTHER -> e[2] = e[3] \/ HasEqualChildren(e[2]) \/ HasEqualChildren(e[3])

\* the reference rewrite, rule by rule
RefExcludedMiddle(x) ==
    \E n \in Names : x \in {<<"Or", <<"Var", n>>, <<"Not", <<"Var", n>>>>>>,
                             <<"Or", <<"Not", <<"Var", n>>>>, <<"Var", n>>>>}

RefContradiction(x) ==
    \E n \in Names : x \in {<<"And", <<"Var", n>>, <<"Not", <<"Var", n>>>>>>,
                             <<"And", <<"Not", <<"Var", n>>>>, <<"Var", n>>>>}

RECURSIVE RefSimplify(_)
RefSimplify(e) ==
    CASE e[1] \in {"Var", "Const"} -> e
      [] e[1] = "Not" ->
            LET x == RefSimplify(e[2])
            IN  IF x[1] = "Not" THEN RefSimplify(x[2])
                ELSE IF x[1] = "Const" THEN <<"Const", ~x[2]>>
                ELSE <<"Not", x>>
      [] e[1] = "And" ->
            LET l == RefSimplify(e[2])
                r == RefSimplify(e[3])
            IN  IF <<"Const", FALSE>> \in {l, r} THEN <<"Const", FALSE>>
                ELSE IF l = <<"Const", TRUE>> THEN r
                ELSE IF r = <<"Const", TRUE>> THEN l
                ELSE IF l = r THEN l
                ELSE IF RefExcludedMiddle(l) THEN r
                ELSE IF RefExcludedMiddle(r) THEN l
                ELSE <<"And", l, r>>
      [] e[1] = "Or" ->
            LET l == RefSimplify(e[2])
                r == RefSimplify(e[3])
            IN  IF <<"Const", TRUE>> \in {l, r} THEN <<"Const", TRUE>>
                ELSE IF l = <<"Const", FALSE>> THEN r
                ELSE IF r = <<"Const", FALSE>> THEN l
                ELSE IF l = r THEN l
                ELSE IF RefContradiction(l) THEN r
                ELSE IF RefContradiction(r) THEN l
                ELSE <<"Or", l, r>>

vA == Variable(<<"A">>)
vB == Variable(<<"B">>)

----------------------------------------------------------------------------
(* Properties of simplify() and of the driver, under Spec *)

\* C1: simplifying the result of simplify() again renders to the same string:
\* str(e.simplify().simplify()) == str(e.simplify()) for every expression e.
C1_Idempotent ==
    twice # None => Str(twice) = Str(once)

C1_Witness ==
    /\ twice # None
    /\ once # expression
    /\ ~IsConstant(once)

\* C2: the rendering of a driver result, parsed and simplified by the driver
\* again, renders to the same string (and parses at all).
C2_RoundTrip ==
    /\ pc # "error"
    /\ (pc = "done" /\ round = 2) => Str(result) = firstText

\* C5: the driver makes at most max_steps passes; a pass whose result renders
\* like the tree it was applied to returns that result at once, any other pass
\* continues with its result, the fall-through returns the last computed tree;
\* and a running driver always reaches a return.
C5_DriverTerminates ==
    /\ [](/\ steps \in 0..max_steps
          /\ via = "unchanged" => steps < max_steps
          /\ via = "cap" => steps = max_steps)
    /\ [][(pc = "loop" /\ <<pc', steps'>> # <<pc, steps>>) =>
            IF steps < max_steps /\ Str(simplify(current)) = Str(current)
            THEN pc' = "done" /\ result' = simplify(current) /\ steps' = steps
            ELSE IF steps < max_steps
            THEN pc' = "loop" /\ current' = simplify(current) /\ steps' = steps + 1
            ELSE pc' = "done" /\ result' = current]_vars
    /\ ((pc \in {"call", "loop"}) ~> (pc = "done"))

C5_Witness ==
    /\ pc = "done"
    /\ round = 1
    /\ via = "unchanged"
    /\ steps = 1
    /\ result # expression

\* C6: one simplify() call returns what the reference rewrite returns.
C6_MatchesReference ==
    once # None => once = RefSimplify(expression)

C6_Witness ==
    /\ expression = And(Or(Not(vA), vA), vB)
    /\ once = vB

\* C8: simplify() and the driver preserve the truth value under every
\* assignment, and introduce no variable.
C8_PreservesMeaning ==
    /\ once # None =>
          /\ \A a \in Assignments : Eval(once, a) = Eval(expression, a)
          /\ VarsOf(once) \subseteq VarsOf(expression)
    /\ (pc = "done" /\ round = 1) =>
          /\ \A a \in Assignments : Eval(result, a) = Eval(expression, a)
          /\ VarsOf(result) \subseteq VarsOf(expression)

C8_Witness ==
    /\ once # None
    /\ pc = "done"
    /\ round = 1
    /\ expression = And(Or(vA, Not(vA)), vB)
    /\ once = vB
    /\ result = vB

\* C9: the result of simplify() is a bare constant or holds no constant; it
\* holds no Not of a Not, and no And or Or with two equal children.
C9_NormalForm ==
    once # None =>
        /\ IsConstant(once) \/ ~HasConstant(once)
        /\ ~HasDoubleNot(once)
        /\ ~HasEqualChildren(once)

C9_Witness ==
    /\ once # None
    /\ ~IsConstant(once)
    /\ HasConstant(expression)
    /\ HasDoubleNot(expression) \/ HasEqualChildren(expression)

\* C10: the driver never takes the fall-through return: it returns through the
\* unchanged-rendering exit after at most two passes (steps <= 1), and what it
\* returns is one simplify() of its input.
C10_CapNeverReached ==
    /\ via # "cap"
    /\ steps <= 1
    /\ pc = "loop" => steps < max_steps
    /\ pc = "done" =>
          /\ via = "unchanged"
          /\ round = 1 => SameObject(result, simplify(expression))
          /\ round = 2 => SameObject(result, simplify(parsed.tree))

C10_Witness ==
    /\ pc = "done"
    /\ round = 1
    /\ steps = 1
    /\ IsOr(result)

----------------------------------------------------------------------------
(* Properties of the tokenizer, under TextSpec *)

\* the text without its whitespace characters
RECURSIVE StripWhitespace(_)
StripWhitespace(s) ==
    IF s = <<>> THEN <<>>
    ELSE IF Head(s) \in {" ", "\t", "\n"} THEN StripWhitespace(Tail(s))
    ELSE <<Head(s)>> \o StripWhitespace(Tail(s))

\* C7: the token list of a text is the token list of the text with every
\* whitespace character (space, tab, newline) removed.
C7_WhitespaceStripped ==
    pc = "tokenized" => tokens = Tokenize(StripWhitespace(text))

----------------------------------------------------------------------------
(* Properties of the parser, under TokenSpec *)

PrimaryStart(t) == IsAlphaToken(t) \/ t \in {<<"~">>, <<"(">>}
PrimaryEnd(t) == IsAlphaToken(t) \/ t = <<")">>
Operator(t) == t \in {<<"&">>, <<"|">>}

Count(toks, t) == Cardinality({i \in 1..Len(toks) : toks[i] = t})

\* nesting depth after the first i tokens
Depth(toks, i) == Count(SubSeq(toks, 1, i), <<"(">>) - Count(SubSeq(toks, 1, i), <<")">>)

\* the token lists of the grammar
\*   expr := primary (('&' | '|') primary)*
\*   primary := TRUE | FALSE | IDENT | '~' primary | '(' expr ')'
WellFormed(toks) ==
    /\ toks # <<>>
    /\ PrimaryStart(toks[1])
    /\ PrimaryEnd(toks[Len(toks)])
    /\ \A i \in 1..(Len(toks) - 1) :
          IF PrimaryEnd(toks[i])
          THEN Operator(toks[i + 1]) \/ toks[i + 1] = <<")">>
          ELSE PrimaryStart(toks[i + 1])
    /\ \A i \in 1..Len(toks) : Depth(toks, i) >= 0
    /\ Depth(toks, Len(toks)) = 0

\* C3: the parser returns a tree having consumed every token, or fails and
\* returns no tree; it fails (a) when the tokens end where a primary is
\* expected, (b) on a '(' that is never closed, (c) on ')', '&' or '|' where a
\* primary is expected, (d) when tokens follow a complete expression; and it
\* accepts exactly the token lists of the grammar.
C3_AllOrNothing ==
    pc = "parsed" =>
        /\ \/ parsed.ok /\ parsed.tree # None /\ parsed.rest = <<>> /\ parsed.err = "none"
           \/ ~parsed.ok /\ parsed.tree = None
                /\ parsed.err \in {"empty", "paren", "unknown", "extra"}
        /\ (tokens = <<>> \/ ~PrimaryEnd(tokens[Len(tokens)])) => ~parsed.ok
        /\ tokens = <<>> => parsed.err = "empty"
        /\ Count(tokens, <<"(">>) > Count(tokens, <<")">>) => ~parsed.ok
        /\ (\E i \in 1..Len(tokens) :
               /\ ~PrimaryStart(tokens[i])
               /\ i = 1 \/ ~PrimaryEnd(tokens[i - 1])) => ~parsed.ok
        /\ (tokens # <<>> /\ ~PrimaryStart(tokens[1])) => parsed.err = "unknown"
        /\ (\E i \in 1..(Len(tokens) - 1) :
               /\ ParseTokens(SubSeq(tokens, 1, i)).ok
               /\ ~Operator(tokens[i + 1])) => (~parsed.ok /\ parsed.err = "extra")
        /\ parsed.ok <=> WellFormed(tokens)

C3_Witness ==
    /\ pc = "parsed"
    /\ tokens = <<(<<"(">>), (<<"A">>), (<<")">>), (<<"B">>)>>
    /\ ~parsed.ok
    /\ parsed.err = "extra"

\* toks is exactly one primary
WholePrimary(toks) == parse_primary(toks).ok /\ parse_primary(toks).rest = <<>>

\* the node reached from e by following left children of And and Or nodes
RECURSIVE LeftMost(_)
LeftMost(e) == IF e[1] \in {"And", "Or"} THEN LeftMost(e[2]) ELSE e

\* C4: '&' and '|' fold to the left at one level: a list x op y, with x a
\* complete expression and y one primary, parses to op(parse x, parse y);
\* '~' negates only the primary that follows it.
C4_LeftFold ==
    (pc = "parsed" /\ parsed.ok) =>
        /\ \A i \in 2..(Len(tokens) - 1) :
              (/\ Operator(tokens[i])
               /\ ParseTokens(SubSeq(tokens, 1, i - 1)).ok
               /\ WholePrimary(Drop(tokens, i)))
              => parsed.tree = <<IF tokens[i] = <<"&">> THEN "And" ELSE "Or",
                                 ParseTokens(SubSeq(tokens, 1, i - 1)).tree,
                                 parse_primary(Drop(tokens, i)).tree>>
        /\ \A j \in 2..Len(tokens) :
              (tokens[1] = <<"~">> /\ WholePrimary(SubSeq(tokens, 2, j)))
              => LeftMost(parsed.tree) =
                   <<"Not", parse_primary(SubSeq(tokens, 2, j)).tree>>
        /\ tokens = <<(<<"A">>), (<<"|">>), (<<"B">>), (<<"&">>), (<<"A">>)>>
              => parsed.tree = <<"And", <<"Or", vA, vB>>, vA>>
        /\ tokens = <<(<<"A">>), (<<"&">>), (<<"B">>), (<<"|">>), (<<"A">>)>>
              => parsed.tree = <<"Or", <<"And", vA, vB>>, vA>>
        /\ tokens = <<(<<"~">>), (<<"A">>), (<<"&">>), (<<"B">>)>>
              => parsed.tree = <<"And", <<"Not", vA>>, vB>>

C4_Witness ==
    /\ pc = "parsed"
    /\ parsed.ok
    /\ tokens = <<(<<"A">>), (<<"|">>), (<<"B">>), (<<"&">>), (<<"A">>)>>
    /\ parsed.tree = And(Or(vA, vB), vA)

====
